---- MODULE Spec2Model ----
(***************************************************************************)
(* A model of the CardioNova backend: the /predict endpoint (feature       *)
(* derivation, preprocessing, three-model ensemble, SHAP attribution,      *)
(* narrative generation, history insert), the /history endpoints and the   *)
(* token check they share.                                                 *)
(*                                                                         *)
(* Units.  A probability is an integer number of hundredths (0..100).  A   *)
(* risk score is the numerator of a fraction over 300, so that the mean of *)
(* three probabilities (p1 + p2 + p3) / 3 is kept exactly.  Time is a      *)
(* counter of days.                                                        *)
(***************************************************************************)
EXTENDS Integers, Sequences, FiniteSets, TLC

VARIABLES
    store,    \* predictions_collection: the documents, in insertion order
    nextId,   \* the next ObjectId the collection hands out
    now,      \* datetime.utcnow(), in days
    req,      \* the last request handled: its inputs and what its collaborators did
    resp,     \* the response to it
    calls,    \* the collaborator calls it made, in order
    users,    \* users_collection: the accounts, in insertion order
    workers   \* each worker's place in the signup request it is handling

vars == <<store, nextId, now, req, resp, calls, users, workers>>

\* ------------------------------------------------------------------ bounds
MaxIds == 2      \* documents ever inserted
MaxTime == 1     \* the clock's last value
MaxWorkers == 2  \* workers handling signup requests at once
MaxUsers == 2    \* accounts ever inserted
MaxFeatures == 6 \* features of a sample handed to get_top_features
MaxShap == 1     \* the greatest |SHAP value|

\* --------------------------------------------------------- program constants
TokenTTL == 1    \* timedelta(days=1)
LowCut == 33     \* final_score < 0.33
ModerateCut == 66 \* final_score < 0.66
TopN == 5        \* get_top_features(..., top=5)
ProbDen == 100   \* a probability of 1.0, in hundredths

\* ------------------------------------------------------------ Python values
Null == "<None>"                       \* None, where a str is expected
NoneCell == [none |-> TRUE]            \* None, as a JSON cell value
Num(n) == [num |-> n]                  \* a JSON number
Str(s) == [str |-> s]                  \* a JSON string
Truthy(s) == s # Null /\ s # ""        \* bool(s) for s: Optional[str]
HasKey(d, k) == k \in DOMAIN d
Get(d, k) == IF k \in DOMAIN d THEN d[k] ELSE Null          \* d.get(k), str-valued
GetCell(d, k) == IF k \in DOMAIN d THEN d[k] ELSE NoneCell  \* d.get(k), cell-valued
Last(s) == s[Len(s)]

\* One collaborator call of a request: the function called, and whether it
\* returned (TRUE) or raised (FALSE).
Call(fn, ok) == [fn |-> fn, ok |-> ok]

\* The strings float() converts to a number, with their values, and the one
\* it converts to NaN; float() raises for any other string and for None.
NumericStrings == ("45" :> 45) @@ ("130" :> 130)
NaNStrings == {"nan"}
IsNaN(v) == HasKey(v, "str") /\ v.str \in NaNStrings
CanFloat(v) ==
    HasKey(v, "num") \/ (HasKey(v, "str") /\ v.str \in DOMAIN NumericStrings \cup NaNStrings)
ToFloat(v) == IF HasKey(v, "num") THEN v.num ELSE NumericStrings[v.str]

\* float(v) < k: no comparison with NaN is true
FloatLt(v, k) == ~IsNaN(v) /\ ToFloat(v) < k

\* --------------------------------------------------------------- the tokens
Emails == {"a@x", "b@x"}
Roles == {"Doctor", "Patient"}

\* A token as the decoder sees it: the payload it carries, and whether its
\* signature verifies under JWT_SECRET with HS256.
Tokens ==
    [email : Emails \cup {Null, ""}, role : Roles \cup {Null},
     exp : (0 - TokenTTL) .. (MaxTime + TokenTTL), signed : BOOLEAN]

\* The two decoders _get_jwt_decoder can return differ at exp = now: PyJWT
\* raises when exp <= now, python-jose when exp < now.
JwtLibs == {"pyjwt", "jose"}
Expired(tok, t, lib) == IF lib = "pyjwt" THEN tok.exp <= t ELSE tok.exp < t

\* DecodeRaises with the expiry check switched off (verify_exp: False)
DecodeRaises_NoExpiry(tok, t, lib) == ~tok.signed

\* decode_token raises
DecodeRaises(tok, t, lib) == ~tok.signed \/ Expired(tok, t, lib)

\* decode_token's payload: the claims the token carries; payload.get(k) is
\* None when the key is absent or its value is None
decode_token(tok) == [k \in DOMAIN tok \ {"signed"} |-> tok[k]]

\* A claim generate_token adds only when its value is not None
Claim(k, v) == IF v = Null THEN [x \in {} |-> Null] ELSE (k :> v)

\* generate_token(email, name, role) called at time t: signed with JWT_SECRET
\* under HS256
generate_token(email, name, role, t) ==
    [email |-> email, exp |-> t + TokenTTL, signed |-> TRUE]
        @@ Claim("name", name) @@ Claim("role", role)

\* The token after a change of its text, or one signed with another secret:
\* the signature no longer verifies
Tampered(tok) == [tok EXCEPT !.signed = FALSE]

\* The Authorization header: absent (""), another scheme, or "Bearer <token>".
Headers ==
    {[kind |-> "none"], [kind |-> "basic"]} \cup
    {[kind |-> "bearer", token |-> tok] : tok \in Tokens}

\* auth_header.startswith("Bearer ")
IsBearer(hdr) == hdr.kind = "bearer"

\* ------------------------------------------------------ feature normalizer
\* _age_group with the bins closed on the right (a <= 31, ...)
_age_group_Inclusive(a) ==
    IF ~CanFloat(a) THEN "unknown"
    ELSE IF FloatLt(a, 32) THEN "0-30"
    ELSE IF FloatLt(a, 47) THEN "31-45"
    ELSE IF FloatLt(a, 62) THEN "46-60"
    ELSE "61+"

\* _age_group: float(a), then the bins
_age_group(a) ==
    IF ~CanFloat(a) THEN "unknown"
    ELSE IF FloatLt(a, 31) THEN "0-30"
    ELSE IF FloatLt(a, 46) THEN "31-45"
    ELSE IF FloatLt(a, 61) THEN "46-60"
    ELSE "61+"

\* _bp_cat without its except clause's answer: a value float() refuses is
\* binned as the highest
_bp_cat_NoUnknown(b) ==
    IF ~CanFloat(b) THEN "hypertension2"
    ELSE IF FloatLt(b, 120) THEN "normal"
    ELSE IF FloatLt(b, 130) THEN "elevated"
    ELSE IF FloatLt(b, 140) THEN "hypertension1"
    ELSE "hypertension2"

\* _bp_cat
_bp_cat(b) ==
    IF ~CanFloat(b) THEN "unknown"
    ELSE IF FloatLt(b, 120) THEN "normal"
    ELSE IF FloatLt(b, 130) THEN "elevated"
    ELSE IF FloatLt(b, 140) THEN "hypertension1"
    ELSE "hypertension2"

\* _chol_cat
_chol_cat(c) ==
    IF ~CanFloat(c) THEN "unknown"
    ELSE IF FloatLt(c, 200) THEN "normal"
    ELSE IF FloatLt(c, 240) THEN "borderline"
    ELSE "high"

\* df[target] = f(df[source]) when the source column exists and the target
\* does not
DeriveCol(df, source, target, val) ==
    IF HasKey(df, source) /\ ~HasKey(df, target) THEN df @@ (target :> val) ELSE df

\* The single-row frame handed to the preprocessor.
DeriveColumns(data) ==
    LET d1 == DeriveCol(data, "thalach", "thalch", GetCell(data, "thalach"))
        d2 == DeriveCol(d1, "age", "age_group", Str(_age_group(GetCell(d1, "age"))))
        d3 == DeriveCol(d2, "trestbps", "bp_cat", Str(_bp_cat(GetCell(d2, "trestbps"))))
    IN  DeriveCol(d3, "chol", "chol_cat", Str(_chol_cat(GetCell(d3, "chol"))))

\* The columns the fitted preprocessor was trained on.
RequiredCols == {"age", "trestbps", "chol", "thalch", "age_group", "bp_cat", "chol_cat"}

\* preprocessor.transform(df): "ok" or the class of the exception it raises.
\* A frame that lacks a required column is rejected with ValueError; a frame
\* that has them all may still be rejected for its values (outcome), with
\* ValueError or with an exception of another class ("TypeError": a value
\* that is a JSON object or array).
transform(df, outcome) ==
    IF RequiredCols \subseteq DOMAIN df THEN outcome ELSE "ValueError"

\* preprocessor.get_feature_names_out()
FeatureNames == <<"num__age", "num__chol", "cat__bp_cat_normal">>

\* ---------------------------------------------------------- ensemble scorer
\* (p1 + p2 + p3) / 3, as a numerator over 3 * ProbDen
final_score(p1, p2, p3) == p1 + p2 + p3

\* risk_level with the boundaries on the wrong side (<= for <)
risk_level_Inclusive(score) ==
    IF score <= 3 * LowCut THEN "Low"
    ELSE IF score <= 3 * ModerateCut THEN "Moderate"
    ELSE "High"

\* the three tiers
risk_level(score) ==
    IF score < 3 * LowCut THEN "Low"
    ELSE IF score < 3 * ModerateCut THEN "Moderate"
    ELSE "High"

\* ------------------------------------------------------ attribution extractor
Abs(v) == IF v < 0 THEN -v ELSE v

\* idx with i inserted before the first index whose |value| is greater, so
\* that equal values keep their order: one step of an ascending stable sort
RECURSIVE InsertIdx(_, _, _)
InsertIdx(idx, i, vals) ==
    IF idx = <<>> THEN <<i>>
    ELSE IF Abs(vals[Head(idx)]) > Abs(vals[i]) THEN <<i>> \o idx
    ELSE <<Head(idx)>> \o InsertIdx(Tail(idx), i, vals)

\* abs_vals.argsort() of the first n values: the indices by ascending |value|
RECURSIVE ArgSortAbs(_, _)
ArgSortAbs(vals, n) ==
    IF n = 0 THEN <<>> ELSE InsertIdx(ArgSortAbs(vals, n - 1), n, vals)

Reverse(s) == [i \in 1 .. Len(s) |-> s[Len(s) + 1 - i]]

\* TopIdx without the [::-1]: abs_vals.argsort()[-top:]
TopIdx_Ascending(vals, top) ==
    LET sorted == ArgSortAbs(vals, Len(vals))
        from == IF Len(sorted) > top THEN Len(sorted) - top + 1 ELSE 1
    IN  SubSeq(sorted, from, Len(sorted))

\* abs_vals.argsort()[-top:][::-1]
TopIdx(vals, top) ==
    LET sorted == ArgSortAbs(vals, Len(vals))
        from == IF Len(sorted) > top THEN Len(sorted) - top + 1 ELSE 1
    IN  Reverse(SubSeq(sorted, from, Len(sorted)))

\* get_top_features on the first sample's SHAP values
get_top_features(vals, fnames, top) ==
    LET idx == TopIdx(vals, top)
    IN  [k \in 1 .. Len(idx) |-> [feature |-> fnames[idx[k]], value |-> vals[idx[k]]]]

\* The SHAP step of predict_risk: shap is what explainer.shap_values does,
\* [raises |-> TRUE, msg |-> str(e)] or [raises |-> FALSE, vals |-> row].
\* fnames[i] raises IndexError when the row is longer than the names.
ShapStep(shap, fnames) ==
    IF shap.raises
    THEN [top_features |-> <<>>, shap_error |-> shap.msg]
    ELSE IF Len(shap.vals) > Len(fnames) /\
            \E k \in 1 .. Len(TopIdx(shap.vals, TopN)) : TopIdx(shap.vals, TopN)[k] > Len(fnames)
    THEN [top_features |-> <<>>, shap_error |-> "list index out of range"]
    ELSE [top_features |-> get_top_features(shap.vals, fnames, TopN), shap_error |-> Null]

\* -------------------------------------------------------- narrative generator
\* A text is the sequence of its lines.  str.strip() and str.strip("- ") on
\* the lines the generative service is modelled to answer with.
StripWs == ("" :> "") @@ ("  " :> "") @@ ("- " :> "-") @@
           ("- Walk daily" :> "- Walk daily") @@ ("Eat well " :> "Eat well")
StripDash == ("" :> "") @@ ("  " :> "") @@ ("- " :> "") @@
             ("- Walk daily" :> "Walk daily") @@ ("Eat well " :> "Eat well")
ServiceLines == DOMAIN StripWs

RECURSIVE DropBlankHead(_)
DropBlankHead(t) ==
    IF t = <<>> THEN t
    ELSE IF StripWs[Head(t)] = "" THEN DropBlankHead(Tail(t)) ELSE t

\* text.strip() of a whole text: the blank lines at both ends go, and the
\* trailing whitespace of the last line left
TextStrip(t) ==
    LET a == Reverse(DropBlankHead(Reverse(DropBlankHead(t))))
    IN  IF a = <<>> THEN a
        ELSE [i \in 1 .. Len(a) |-> IF i = Len(a) THEN StripWs[a[i]] ELSE a[i]]

RECURSIVE SelectNonEmpty(_)
SelectNonEmpty(t) ==
    IF t = <<>> THEN t
    ELSE IF Head(t) = "" THEN SelectNonEmpty(Tail(t))
    ELSE <<Head(t)>> \o SelectNonEmpty(Tail(t))

\* [ln.strip("- ").strip() for ln in text.splitlines() if ln.strip()], then
\* [ln for ln in lines if ln]
CleanLines(t) ==
    LET kept == SelectNonEmpty([i \in 1 .. Len(t) |-> IF StripWs[t[i]] = "" THEN "" ELSE t[i]])
    IN  SelectNonEmpty([i \in 1 .. Len(kept) |-> StripDash[kept[i]]])

\* f"{risk_score:.2f}" of a score given as a numerator over 300
Fmt2(score) ==
    LET h == (score + 1) \div 3
    IN  ToString(h \div 100) \o "." \o ToString((h % 100) \div 10) \o ToString(h % 10)

_basic_explanation_fallback(level, score) ==
    <<"Your predicted heart disease risk is " \o level \o " (score: " \o Fmt2(score) \o
      "). This tool is for educational use only">>

_basic_lifestyle_fallback(level) ==
    <<"This tool does not give medical advice.",
      IF level = "Low" THEN "Maintain a heart-healthy lifestyle"
      ELSE IF level = "Moderate" THEN "Consider speaking with a healthcare professional"
      ELSE "It may be important to seek professional medical advice">>

\* What one call of the generative service does: svc.raises, or svc.text is
\* resp.text.  configured is _get_client().
generate_explanation(score, level, configured, svc) ==
    IF ~configured THEN _basic_explanation_fallback(level, score)
    ELSE IF svc.raises THEN _basic_explanation_fallback(level, score)
    ELSE IF TextStrip(svc.text) = <<>> THEN _basic_explanation_fallback(level, score)
    ELSE TextStrip(svc.text)

generate_lifestyle_suggestions(score, level, configured, svc) ==
    IF ~configured THEN _basic_lifestyle_fallback(level)
    ELSE IF svc.raises THEN _basic_lifestyle_fallback(level)
    ELSE IF CleanLines(svc.text) = <<>> THEN _basic_lifestyle_fallback(level)
    ELSE CleanLines(svc.text)

\* generate_followup_plan returning the service's text without the
\* `if not text` check
generate_followup_plan_Unchecked(score, level, configured, svc) ==
    IF ~configured THEN <<"Consider scheduling an appointment ... ask what additional tests">>
    ELSE IF svc.raises THEN <<"Consider scheduling an appointment ... discuss safe lifestyle options.">>
    ELSE TextStrip(svc.text)

generate_followup_plan(score, level, configured, svc) ==
    IF ~configured THEN <<"Consider scheduling an appointment ... ask what additional tests">>
    ELSE IF svc.raises THEN <<"Consider scheduling an appointment ... discuss safe lifestyle options.">>
    ELSE IF TextStrip(svc.text) = <<>> THEN <<"Consider discussing this assessment with a doctor">>
    ELSE TextStrip(svc.text)

generate_prescription_summary(score, level, configured, svc) ==
    IF ~configured THEN <<"This summary is intended to help structure a discussion">>
    ELSE IF svc.raises THEN <<"This high-level summary is intended for discussion">>
    ELSE IF TextStrip(svc.text) = <<>> THEN <<"Discuss these results with a qualified doctor">>
    ELSE TextStrip(svc.text)

\* ------------------------------------------------------------------ /predict
\* patient_name.strip().lower() on the names the requests carry
NormName == (" Ann " :> "ann") @@ ("ann" :> "ann") @@ ("Bob" :> "bob")

\* raw.get("patientName") or raw.get("patient_name")
PatientName(raw) ==
    IF Truthy(Get(raw, "patientName")) THEN raw.patientName ELSE Get(raw, "patient_name")

\* raw.get("features") or raw
Features(raw) ==
    IF HasKey(raw, "features") /\ DOMAIN raw.features # {} THEN raw.features ELSE raw

\* raw.get("lifestyle") or {}
Lifestyle(raw) == IF HasKey(raw, "lifestyle") THEN raw.lifestyle ELSE <<>>

\* UserEmail reading the token's email without verifying the token
UserEmail_Unverified(hdr, t, lib) ==
    IF IsBearer(hdr) THEN decode_token(hdr.token).email ELSE Null

\* user_email: the token's email when the header is a Bearer header whose
\* token decodes, None otherwise
UserEmail(hdr, t, lib) ==
    IF IsBearer(hdr) /\ ~DecodeRaises(hdr.token, t, lib)
    THEN decode_token(hdr.token).email
    ELSE Null

\* patient_id
PatientId(user_email, patient_name) ==
    IF Truthy(user_email) /\ Truthy(patient_name)
    THEN user_email \o "::" \o NormName[patient_name]
    ELSE Null

\* The response dict of a prediction; shap_error only `if shap_error:`.
PredictResponse(raw, score, level, shap, expl, life, plan, presc) ==
    [input |-> Features(raw), risk_score |-> score, risk_level |-> level,
     top_features |-> shap.top_features, explanation_text |-> expl,
     lifestyle_suggestions |-> life, followup_plan |-> plan,
     prescription_summary |-> presc, lifestyle |-> Lifestyle(raw),
     patientName |-> PatientName(raw)]
    @@ (IF Truthy(shap.shap_error) THEN [shap_error |-> shap.shap_error] ELSE <<>>)

\* PredictionDoc storing the fallback attribution and plan instead of the
\* ones the response carries
PredictionDoc_Stale(id, t, user_email, raw, score, level, shap, expl, life, plan, presc) ==
    [_id |-> id, created_at |-> t, userId |-> user_email, doctorId |-> user_email,
     patientId |-> PatientId(user_email, PatientName(raw)),
     patientName |-> PatientName(raw), input |-> Features(raw),
     risk_score |-> score, risk_level |-> level,
     trestbps |-> GetCell(Features(raw), "trestbps"), chol |-> GetCell(Features(raw), "chol"),
     thalach |-> GetCell(Features(raw), "thalach"), oldpeak |-> GetCell(Features(raw), "oldpeak"),
     restecg |-> GetCell(Features(raw), "restecg"),
     smoking_status |-> GetCell(Lifestyle(raw), "smoking_status"),
     diabetes_status |-> GetCell(Lifestyle(raw), "diabetes_status"),
     family_history_diabetes |-> GetCell(Lifestyle(raw), "family_history_diabetes"),
     pregnancy_status |-> GetCell(Lifestyle(raw), "pregnancy_status"),
     top_features |-> <<>>, explanation_text |-> expl,
     lifestyle_suggestions |-> life, followup_plan |-> <<>>, prescription_summary |-> presc]

\* The document handed to insert_one, with the _id the collection gives it.
PredictionDoc(id, t, user_email, raw, score, level, shap, expl, life, plan, presc) ==
    [_id |-> id, created_at |-> t, userId |-> user_email, doctorId |-> user_email,
     patientId |-> PatientId(user_email, PatientName(raw)),
     patientName |-> PatientName(raw), input |-> Features(raw),
     risk_score |-> score, risk_level |-> level,
     trestbps |-> GetCell(Features(raw), "trestbps"), chol |-> GetCell(Features(raw), "chol"),
     thalach |-> GetCell(Features(raw), "thalach"), oldpeak |-> GetCell(Features(raw), "oldpeak"),
     restecg |-> GetCell(Features(raw), "restecg"),
     smoking_status |-> GetCell(Lifestyle(raw), "smoking_status"),
     diabetes_status |-> GetCell(Lifestyle(raw), "diabetes_status"),
     family_history_diabetes |-> GetCell(Lifestyle(raw), "family_history_diabetes"),
     pregnancy_status |-> GetCell(Lifestyle(raw), "pregnancy_status"),
     top_features |-> shap.top_features, explanation_text |-> expl,
     lifestyle_suggestions |-> life, followup_plan |-> plan, prescription_summary |-> presc]

\* An exception that no except clause of the handler catches leaves it, and
\* the framework answers 500.
Unhandled(op) == [op |-> op, status |-> 500, body |-> [msg |-> "Internal Server Error"]]

\* except ValueError: the 400 with its diagnostic
PreprocessingFailed(e) ==
    [op |-> "predict", status |-> 400, body |-> [msg |-> "Preprocessing failed", error |-> e]]

\* AfterHistoryWrite without the try/except around insert_one: a failed
\* insert becomes the request's failure
AfterHistoryWrite_Unguarded(response, inserted) ==
    IF inserted THEN [op |-> "predict", status |-> 200, body |-> response]
    ELSE Unhandled("predict")

\* What predict_risk returns after the history write: jsonify(response),
\* whether insert_one returned or raised (except Exception: pass)
AfterHistoryWrite(response, inserted) ==
    [op |-> "predict", status |-> 200, body |-> response]

\* predict_risk on body raw with Authorization header hdr, against the
\* collection st whose next id is id, at time t.  env is what the
\* collaborators do during the request:
\*   transform  what preprocessor.transform does with a complete frame
\*   p          the three models' P(positive), in hundredths
\*   shap       what explainer.shap_values does
\*   apiKey     GEMINI_API_KEY is set
\*   svc        what each of the four generative calls does
\*   lib        the JWT library found
\*   insert     what insert_one does: "ok" or "raise"
\* The result is the response, the collection afterwards and the calls made.
predict_risk(raw, hdr, env, st, id, t) ==
    IF transform(DeriveColumns(Features(raw)), env.transform) = "ValueError"
    THEN [resp |-> PreprocessingFailed("ValueError"),
          store |-> st, nextId |-> id, calls |-> <<Call("transform", FALSE)>>]
    ELSE IF transform(DeriveColumns(Features(raw)), env.transform) # "ok"
    THEN [resp |-> Unhandled("predict"),
          store |-> st, nextId |-> id, calls |-> <<Call("transform", FALSE)>>]
    ELSE
    LET score == final_score(env.p[1], env.p[2], env.p[3])
        level == risk_level(score)
        shap == ShapStep(env.shap, FeatureNames)
        expl == generate_explanation(score, level, env.apiKey, env.svc[1])
        life == generate_lifestyle_suggestions(score, level, env.apiKey, env.svc[2])
        plan == generate_followup_plan(score, level, env.apiKey, env.svc[3])
        presc == generate_prescription_summary(score, level, env.apiKey, env.svc[4])
        user_email == UserEmail(hdr, t, env.lib)
        doc == PredictionDoc(id, t, user_email, raw, score, level, shap, expl, life, plan, presc)
        inserted == env.insert = "ok"
    IN  [resp |-> AfterHistoryWrite(
                      PredictResponse(raw, score, level, shap, expl, life, plan, presc), inserted),
         store |-> IF inserted THEN Append(st, doc) ELSE st,
         nextId |-> IF inserted THEN id + 1 ELSE id,
         calls |-> <<Call("transform", TRUE), Call("log_model", TRUE), Call("rf_model", TRUE),
                     Call("xgb_model", TRUE), Call("get_top_features", shap.shap_error = Null),
                     Call("generate_explanation", TRUE),
                     Call("generate_lifestyle_suggestions", TRUE),
                     Call("generate_followup_plan", TRUE),
                     Call("generate_prescription_summary", TRUE)>>
                   \o (IF IsBearer(hdr)
                       THEN <<Call("decode_token", ~DecodeRaises(hdr.token, t, env.lib))>>
                       ELSE <<>>)
                   \o <<Call("insert_one", inserted)>>]

\* ----------------------------------------------------------------- /history
\* str(ObjectId) and ObjectId(str): the ids a request can name are the
\* well-formed ones and one string that is no ObjectId.
OidStr(n) == "oid" \o ToString(n)
WellFormedIds == {OidStr(n) : n \in 1 .. (MaxIds + 1)}
ItemIds == WellFormedIds \cup {"not-an-oid"}
ParseOid(s) == CHOOSE n \in 1 .. (MaxIds + 1) : OidStr(n) = s

\* datetime.isoformat()
IsoFormat(t) == [iso |-> t]

\* collection.find(...): the documents a query matches, in natural order
RECURSIVE Find(_, _, _)
Find(st, field, value) ==
    IF st = <<>> THEN <<>>
    ELSE IF Head(st)[field] = value THEN <<Head(st)>> \o Find(Tail(st), field, value)
    ELSE Find(Tail(st), field, value)

\* InsertDesc sorting the other way: .sort("created_at", 1)
RECURSIVE InsertDesc_Ascending(_, _)
InsertDesc_Ascending(sorted, doc) ==
    IF sorted = <<>> THEN <<doc>>
    ELSE IF Head(sorted).created_at > doc.created_at THEN <<doc>> \o sorted
    ELSE <<Head(sorted)>> \o InsertDesc_Ascending(Tail(sorted), doc)

\* One step of .sort("created_at", -1): doc goes before the first document
\* that is older than it
RECURSIVE InsertDesc(_, _)
InsertDesc(sorted, doc) ==
    IF sorted = <<>> THEN <<doc>>
    ELSE IF Head(sorted).created_at < doc.created_at THEN <<doc>> \o sorted
    ELSE <<Head(sorted)>> \o InsertDesc(Tail(sorted), doc)

\* cursor.sort("created_at", -1)
RECURSIVE SortNewestFirst(_)
SortNewestFirst(docs) ==
    IF docs = <<>> THEN <<>>
    ELSE InsertDesc(SortNewestFirst(SubSeq(docs, 1, Len(docs) - 1)), Last(docs))

\* The loop body of get_history_for_user: _id becomes id = str(_id), and
\* created_at its ISO string
HistoryItem(doc) ==
    [f \in (DOMAIN doc \ {"_id"}) \cup {"id"} |->
        IF f = "id" THEN OidStr(doc._id)
        ELSE IF f = "created_at" THEN IsoFormat(doc.created_at)
        ELSE doc[f]]

\* NotOwner without the comparison with user_id
NotOwner_AnyEmail(email, user_id) == ~Truthy(email)

\* if not email or email != user_id
NotOwner(email, user_id) == ~Truthy(email) \/ email # user_id

Error(op, status, msg) == [op |-> op, status |-> status, body |-> [msg |-> msg]]

\* an error response that also carries str(e)
ErrorWith(op, status, msg, e) ==
    [op |-> op, status |-> status, body |-> [msg |-> msg, error |-> e]]

\* get_history_for_user(user_id); db is what the collection does with the
\* query: "ok" or "raise"
get_history_for_user(method, user_id, hdr, lib, db, st, t) ==
    IF method = "OPTIONS"
    THEN [resp |-> [op |-> "history", status |-> 200, body |-> <<>>], calls |-> <<>>]
    ELSE IF ~IsBearer(hdr)
    THEN [resp |-> Error("history", 401, "Authorization header missing"), calls |-> <<>>]
    ELSE IF DecodeRaises(hdr.token, t, lib)
    THEN [resp |-> ErrorWith("history", 401, "Invalid token", "InvalidTokenError"),
          calls |-> <<Call("decode_token", FALSE)>>]
    ELSE IF NotOwner(decode_token(hdr.token).email, user_id)
    THEN [resp |-> Error("history", 403, "Forbidden"),
          calls |-> <<Call("decode_token", TRUE)>>]
    ELSE IF db = "raise"
    THEN [resp |-> ErrorWith("history", 500, "Failed to load history", "PyMongoError"),
          calls |-> <<Call("decode_token", TRUE), Call("find", FALSE)>>]
    ELSE LET cursor == SortNewestFirst(Find(st, "userId", user_id))
         IN  [resp |-> [op |-> "history", status |-> 200,
                        body |-> [items |-> [i \in 1 .. Len(cursor) |-> HistoryItem(cursor[i])]]],
              calls |-> <<Call("decode_token", TRUE), Call("find", TRUE)>>]

\* DeleteOne as delete_many({"userId": email}): every document of the caller
RECURSIVE DeleteOne_AllOfUser(_, _, _)
DeleteOne_AllOfUser(st, oid, email) ==
    IF st = <<>> THEN <<>>
    ELSE IF Head(st).userId = email THEN DeleteOne_AllOfUser(Tail(st), oid, email)
    ELSE <<Head(st)>> \o DeleteOne_AllOfUser(Tail(st), oid, email)

\* DeleteOne as delete_one({"_id": oid}): the owner is not checked
RECURSIVE DeleteOne_AnyOwner(_, _, _)
DeleteOne_AnyOwner(st, oid, email) ==
    IF st = <<>> THEN <<>>
    ELSE IF Head(st)._id = oid THEN Tail(st)
    ELSE <<Head(st)>> \o DeleteOne_AnyOwner(Tail(st), oid, email)

\* collection.delete_one({"_id": oid, "userId": email}): the collection
\* without the first document the filter matches
RECURSIVE DeleteOne(_, _, _)
DeleteOne(st, oid, email) ==
    IF st = <<>> THEN <<>>
    ELSE IF Head(st)._id = oid /\ Head(st).userId = email THEN Tail(st)
    ELSE <<Head(st)>> \o DeleteOne(Tail(st), oid, email)

\* delete_history_item(item_id)
delete_history_item(method, item_id, hdr, lib, db, st, t) ==
    IF method = "OPTIONS"
    THEN [resp |-> [op |-> "delete", status |-> 200, body |-> <<>>], store |-> st, calls |-> <<>>]
    ELSE IF ~IsBearer(hdr)
    THEN [resp |-> Error("delete", 401, "Authorization header missing"),
          store |-> st, calls |-> <<>>]
    ELSE IF DecodeRaises(hdr.token, t, lib)
    THEN [resp |-> ErrorWith("delete", 401, "Invalid token", "InvalidTokenError"),
          store |-> st, calls |-> <<Call("decode_token", FALSE)>>]
    ELSE IF ~Truthy(decode_token(hdr.token).email)
    THEN [resp |-> Error("delete", 401, "Unauthorized"),
          store |-> st, calls |-> <<Call("decode_token", TRUE)>>]
    ELSE IF item_id \notin WellFormedIds
    THEN [resp |-> Error("delete", 400, "Invalid id"),
          store |-> st, calls |-> <<Call("decode_token", TRUE), Call("ObjectId", FALSE)>>]
    ELSE IF db = "raise"
    THEN [resp |-> ErrorWith("delete", 500, "Failed to delete history item", "PyMongoError"),
          store |-> st,
          calls |-> <<Call("decode_token", TRUE), Call("ObjectId", TRUE),
                      Call("delete_one", FALSE)>>]
    ELSE LET after == DeleteOne(st, ParseOid(item_id), decode_token(hdr.token).email)
             done == <<Call("decode_token", TRUE), Call("ObjectId", TRUE),
                       Call("delete_one", TRUE)>>
         IN  IF Len(after) = Len(st)
             THEN [resp |-> Error("delete", 404, "Item not found"), store |-> st, calls |-> done]
             ELSE [resp |-> [op |-> "delete", status |-> 200, body |-> [msg |-> "Deleted"]],
                   store |-> after, calls |-> done]

\* ------------------------------------------------------------------ /doctor
\* payload.get("role", "Doctor"): a payload without the key counts as a Doctor's
PayloadRole(payload) == IF HasKey(payload, "role") THEN payload.role ELSE "Doctor"

\* The checks both doctor routes make before reading the collection: the
\* error response, or [op |-> "pass", email |-> the caller's email]
DoctorGate(op, hdr, lib, t) ==
    IF ~IsBearer(hdr)
    THEN [resp |-> Error(op, 401, "Authorization header missing"), calls |-> <<>>]
    ELSE IF DecodeRaises(hdr.token, t, lib)
    THEN [resp |-> ErrorWith(op, 401, "Invalid token", "InvalidTokenError"),
          calls |-> <<Call("decode_token", FALSE)>>]
    ELSE IF ~Truthy(Get(decode_token(hdr.token), "email"))
    THEN [resp |-> Error(op, 401, "Unauthorized"), calls |-> <<Call("decode_token", TRUE)>>]
    ELSE IF PayloadRole(decode_token(hdr.token)) # "Doctor"
    THEN [resp |-> Error(op, 403, "Forbidden"), calls |-> <<Call("decode_token", TRUE)>>]
    ELSE [resp |-> [op |-> "pass", email |-> decode_token(hdr.token).email],
          calls |-> <<Call("decode_token", TRUE)>>]

\* $match without the doctorId condition: {"patientId": {"$ne": None}}
RECURSIVE Match_AnyDoctor(_, _)
Match_AnyDoctor(st, email) ==
    IF st = <<>> THEN <<>>
    ELSE IF Head(st).patientId # Null THEN <<Head(st)>> \o Match_AnyDoctor(Tail(st), email)
    ELSE Match_AnyDoctor(Tail(st), email)

\* {"$match": {"doctorId": email, "patientId": {"$ne": None}}}
RECURSIVE Match(_, _)
Match(st, email) ==
    IF st = <<>> THEN <<>>
    ELSE IF Head(st).doctorId = email /\ Head(st).patientId # Null
    THEN <<Head(st)>> \o Match(Tail(st), email)
    ELSE Match(Tail(st), email)

\* One document entering the $group stage: it joins the group of its
\* patientId ($first keeps the name, $max the later created_at, $sum adds 1)
\* or opens a new one
RECURSIVE GroupAdd(_, _)
GroupAdd(groups, doc) ==
    IF groups = <<>>
    THEN <<[_id |-> doc.patientId, patientName |-> doc.patientName,
            lastVisit |-> doc.created_at, assessmentCount |-> 1]>>
    ELSE IF Head(groups)._id = doc.patientId
    THEN <<[Head(groups) EXCEPT
              !.lastVisit = IF doc.created_at > @ THEN doc.created_at ELSE @,
              !.assessmentCount = @ + 1]>> \o Tail(groups)
    ELSE <<Head(groups)>> \o GroupAdd(Tail(groups), doc)

\* {"$group": {"_id": "$patientId", ...}} over the matched documents
RECURSIVE Group(_)
Group(docs) ==
    IF docs = <<>> THEN <<>>
    ELSE GroupAdd(Group(SubSeq(docs, 1, Len(docs) - 1)), Last(docs))

\* One step of {"$sort": {"lastVisit": -1}}
RECURSIVE InsertByLastVisit(_, _)
InsertByLastVisit(sorted, g) ==
    IF sorted = <<>> THEN <<g>>
    ELSE IF Head(sorted).lastVisit < g.lastVisit THEN <<g>> \o sorted
    ELSE <<Head(sorted)>> \o InsertByLastVisit(Tail(sorted), g)

\* {"$sort": {"lastVisit": -1}}; the order of groups with equal lastVisit is
\* the store's, and is taken to be the order of the groups
RECURSIVE SortByLastVisit(_)
SortByLastVisit(groups) ==
    IF groups = <<>> THEN <<>>
    ELSE InsertByLastVisit(SortByLastVisit(SubSeq(groups, 1, Len(groups) - 1)), Last(groups))

\* predictions_collection.aggregate(pipeline)
Aggregate(st, email) == SortByLastVisit(Group(Match(st, email)))

\* The loop body of get_doctor_patients
PatientEntry(g) ==
    [patientId |-> g._id, patientName |-> g.patientName,
     lastVisit |-> IsoFormat(g.lastVisit), assessmentCount |-> g.assessmentCount]

\* get_doctor_patients(); db is what the collection does with the pipeline
get_doctor_patients(hdr, lib, db, st, t) ==
    LET gate == DoctorGate("patients", hdr, lib, t)
        groups == Aggregate(st, gate.resp.email)
    IN  IF gate.resp.op # "pass" THEN gate
        ELSE IF db = "raise"
        THEN [resp |-> ErrorWith("patients", 500, "Failed to load patients", "PyMongoError"),
              calls |-> gate.calls \o <<Call("aggregate", FALSE)>>]
        ELSE [resp |-> [op |-> "patients", status |-> 200,
                        body |-> [patients |-> [k \in 1 .. Len(groups) |-> PatientEntry(groups[k])]]],
              calls |-> gate.calls \o <<Call("aggregate", TRUE)>>]

\* find({"doctorId": email, "patientId": patient_id})
RECURSIVE FindPatient(_, _, _)
FindPatient(st, email, patient_id) ==
    IF st = <<>> THEN <<>>
    ELSE IF Head(st).doctorId = email /\ Head(st).patientId = patient_id
    THEN <<Head(st)>> \o FindPatient(Tail(st), email, patient_id)
    ELSE FindPatient(Tail(st), email, patient_id)

\* The item get_doctor_patient_profile makes of a document
ProfileFields ==
    {"risk_score", "risk_level", "trestbps", "chol", "thalach", "oldpeak", "restecg",
     "smoking_status", "diabetes_status", "family_history_diabetes", "pregnancy_status",
     "input"}
ProfileItem(doc) ==
    [f \in ProfileFields \cup {"id", "created_at"} |->
        IF f = "id" THEN OidStr(doc._id)
        ELSE IF f = "created_at" THEN IsoFormat(doc.created_at)
        ELSE doc[f]]

\* isoformat() of a visit, None when there was none
VisitIso(docs, k) == IF docs = <<>> THEN NoneCell ELSE IsoFormat(docs[k].created_at)

\* get_doctor_patient_profile(patient_id): the documents come newest first,
\* so that last_visit is the first one's created_at and first_visit, the
\* least, the last one's
get_doctor_patient_profile(patient_id, hdr, lib, db, st, t) ==
    LET gate == DoctorGate("profile", hdr, lib, t)
        docs == SortNewestFirst(FindPatient(st, gate.resp.email, patient_id))
    IN  IF gate.resp.op # "pass" THEN gate
        ELSE IF db = "raise"
        THEN [resp |-> ErrorWith("profile", 500, "Failed to load patient profile", "PyMongoError"),
              calls |-> gate.calls \o <<Call("find", FALSE)>>]
        ELSE [resp |-> [op |-> "profile", status |-> 200,
                        body |-> [patientId |-> patient_id,
                                  patientName |-> IF docs = <<>> THEN Null ELSE docs[1].patientName,
                                  stats |-> [assessmentCount |-> Len(docs),
                                             firstVisit |-> VisitIso(docs, Len(docs)),
                                             lastVisit |-> VisitIso(docs, 1)],
                                  history |-> [k \in 1 .. Len(docs) |-> ProfileItem(docs[k])]]],
              calls |-> gate.calls \o <<Call("find", TRUE)>>]

\* --------------------------------------------------------------- the inputs
\* Request bodies: a nested body with a patient name and lifestyle data, a
\* nested body that names the patient in snake case, a flat body without a
\* name, and a body whose row lacks columns the preprocessor requires.
FullRow == [age |-> Num(50), trestbps |-> Num(130), chol |-> Num(250), thalach |-> Num(150)]
NamedBody ==
    [patientName |-> " Ann ", features |-> FullRow,
     lifestyle |-> [smoking_status |-> Str("never")]]
SnakeBody == [patient_name |-> "ann", features |-> FullRow]
ShortBody == [patientName |-> "Bob", features |-> [age |-> Num(50), trestbps |-> Num(130)]]
Bodies == {NamedBody, ShortBody}
RichBodies == {NamedBody, SnakeBody, FullRow, ShortBody}

\* The tokens requests carry: signed ones for a@x that expire at day 1 and
\* after the end, signed ones for b@x and for no email, and one for a@x whose
\* signature does not verify.
FarExp == MaxTime + TokenTTL
RequestTokens ==
    {tok \in Tokens :
        /\ tok.role = "Doctor"
        /\ \/ tok.signed /\ tok.email = "a@x" /\ tok.exp \in {TokenTTL, FarExp}
           \/ tok.signed /\ tok.email \in {"b@x", Null} /\ tok.exp = FarExp
           \/ ~tok.signed /\ tok.email = "a@x" /\ tok.exp = FarExp}
RequestHeaders ==
    {hdr \in Headers : IsBearer(hdr) => hdr.token \in RequestTokens}

\* The headers of the /predict requests: b@x stores nothing, and is the
\* other user its /history requests are made for.
PredictHeaders ==
    {hdr \in RequestHeaders : IsBearer(hdr) => hdr.token.email # "b@x"}

NoService == [i \in 1 .. 4 |-> [raises |-> FALSE, text |-> <<>>]]

\* The collaborators of a request on the plain path: the models answer 0.20,
\* 0.40 and 0.60, SHAP answers, no API key is set.
BaseEnv ==
    [transform |-> "ok", p |-> <<20, 40, 60>>,
     shap |-> [raises |-> FALSE, vals |-> <<3, -5, 1>>],
     apiKey |-> FALSE, svc |-> NoService, lib |-> "pyjwt", insert |-> "ok"]

With(env, field, value) == [env EXCEPT ![field] = value]

\* BaseEnv with the store, the JWT library and the preprocessor varied
Envs ==
    {[BaseEnv EXCEPT !.transform = tr, !.lib = lib, !.insert = ins] :
        tr \in {"ok", "ValueError", "TypeError"}, lib \in JwtLibs, ins \in {"ok", "raise"}}

\* ---------------------------------------------------------------- the actions
\* The workers of the process model, and a worker between two requests: status
\* is its answer to its last signup request (0 before the first).
Workers == 1 .. MaxWorkers
Idle(status) == [pc |-> "idle", status |-> status]

Init ==
    /\ store = <<>>
    /\ nextId = 1
    /\ now = 0
    /\ req = [op |-> "none"]
    /\ resp = [op |-> "none", status |-> 0]
    /\ calls = <<>>
    /\ users = <<>>
    /\ workers = [w \in Workers |-> Idle(0)]

\* The clock advances.
Tick ==
    /\ now < MaxTime
    /\ now' = now + 1
    /\ UNCHANGED <<store, nextId, req, resp, calls, users, workers>>

\* POST /predict.  (\E out \in {...} runs the handler once for the step.)
Predict(raw, hdr, env) ==
    \E out \in {predict_risk(raw, hdr, env, store, nextId, now)} :
        /\ out.nextId <= MaxIds + 1
        /\ store' = out.store
        /\ nextId' = out.nextId
        /\ req' = [op |-> "predict", raw |-> raw, hdr |-> hdr, env |-> env, t |-> now]
        /\ resp' = out.resp
        /\ calls' = out.calls
        /\ UNCHANGED <<now, users, workers>>

\* GET or OPTIONS /history/<user_id>
GetHistory(method, user_id, hdr, lib, db) ==
    \E out \in {get_history_for_user(method, user_id, hdr, lib, db, store, now)} :
        /\ req' = [op |-> "history", method |-> method, user_id |-> user_id, hdr |-> hdr,
                    lib |-> lib, db |-> db, t |-> now]
        /\ resp' = out.resp
        /\ calls' = out.calls
        /\ UNCHANGED <<store, nextId, now, users, workers>>

\* DELETE or OPTIONS /history/item/<item_id>
DeleteItem(method, item_id, hdr, lib, db) ==
    \E out \in {delete_history_item(method, item_id, hdr, lib, db, store, now)} :
        /\ store' = out.store
        /\ req' = [op |-> "delete", method |-> method, item_id |-> item_id, hdr |-> hdr,
                    lib |-> lib, db |-> db, t |-> now]
        /\ resp' = out.resp
        /\ calls' = out.calls
        /\ UNCHANGED <<nextId, now, users, workers>>

\* The requests tried.  An input that cannot change what a handler does is
\* held at one value: the JWT library matters only for a signed token whose
\* expiry the clock can reach, the store's answer, the user and the item
\* only when the handler gets as far as reading them, the header of an
\* OPTIONS request or of a rejected body not at all.
LibMatters(hdr) == IsBearer(hdr) /\ hdr.token.signed /\ hdr.token.exp \in 0 .. MaxTime
Rejected(raw, env) == transform(DeriveColumns(Features(raw)), env.transform) # "ok"

PredictRequests(bodies, headers, envs) ==
    {r \in bodies \X headers \X envs :
        /\ r[3].lib = "jose" => LibMatters(r[2])
        /\ Rejected(r[1], r[3]) =>
              r[2].kind = "none" /\ r[3].insert = "ok" /\ r[3].lib = "pyjwt"}

HistoryRequests ==
    {r \in {"GET", "OPTIONS"} \X Emails \X RequestHeaders \X JwtLibs \X {"ok", "raise"} :
        /\ r[4] = "jose" => LibMatters(r[3])
        /\ r[1] = "OPTIONS" => r[3].kind = "none" /\ r[5] = "ok"
        /\ r[5] = "raise" => IsBearer(r[3]) /\ r[3].token.signed /\ r[3].token.email = r[2]
        /\ r[2] # "a@x" => r[1] = "GET" /\ IsBearer(r[3]) /\ r[3].token.signed}

DeleteRequests ==
    {r \in {"DELETE", "OPTIONS"} \X ItemIds \X RequestHeaders \X JwtLibs \X {"ok", "raise"} :
        /\ r[4] = "jose" => LibMatters(r[3])
        /\ r[1] = "OPTIONS" => r[3].kind = "none" /\ r[5] = "ok"
        /\ r[5] = "raise" =>
              /\ IsBearer(r[3]) /\ r[3].token.signed /\ Truthy(r[3].token.email)
              /\ r[2] \in WellFormedIds
        /\ r[2] # OidStr(1) =>
              r[1] = "DELETE" /\ IsBearer(r[3]) /\ r[3].token.signed /\ Truthy(r[3].token.email)}

Next ==
    \/ Tick
    \/ \E r \in PredictRequests(Bodies, PredictHeaders, Envs) : Predict(r[1], r[2], r[3])
    \/ \E r \in HistoryRequests : GetHistory(r[1], r[2], r[3], r[4], r[5])
    \/ \E r \in DeleteRequests : DeleteItem(r[1], r[2], r[3], r[4], r[5])

Spec == Init /\ [][Next]_vars

\* ------------------------------------------------ the prediction pipeline alone
\* What the three models can answer: the corners, both sides of both tier
\* boundaries, and unequal answers.
ProbTriples ==
    {<<0, 0, 0>>, <<32, 33, 33>>, <<33, 33, 33>>, <<65, 66, 66>>, <<66, 66, 66>>,
     <<ProbDen, ProbDen, ProbDen>>, <<0, 0, ProbDen>>, <<20, 40, 60>>}

\* What the SHAP step can do: raise with a message, raise with an empty
\* message (str(AssertionError()) = ""), answer one value per feature, or
\* answer more values than there are feature names.
ShapOutcomes ==
    {[raises |-> TRUE, msg |-> "boom"], [raises |-> TRUE, msg |-> ""],
     [raises |-> FALSE, vals |-> <<3, -5, 1>>], [raises |-> FALSE, vals |-> <<1, 2, 3, 4>>]}

\* What one generative call can do: raise, or answer no text, blank text, a
\* lone dash, or lines of text.
ServiceOutcomes ==
    {[raises |-> TRUE, text |-> <<>>]} \cup
    {[raises |-> FALSE, text |-> t] :
        t \in {<<>>, <<"  ">>, <<"- ">>, <<"- Walk daily", "  ", "Eat well ">>}}

\* The four calls of a request: all alike, or the second and third failing.
ServiceRuns ==
    {[i \in 1 .. 4 |-> o] : o \in ServiceOutcomes} \cup
    {<<[raises |-> FALSE, text |-> <<"Eat well ">>], [raises |-> TRUE, text |-> <<>>],
       [raises |-> FALSE, text |-> <<"  ">>], [raises |-> FALSE, text |-> <<"- Walk daily">>]>>}

\* BaseEnv with one collaborator varied, and with the store failing or not
RichEnvs ==
    LET varied ==
            {With(BaseEnv, "p", p) : p \in ProbTriples} \cup
            {With(BaseEnv, "shap", sh) : sh \in ShapOutcomes} \cup
            {[BaseEnv EXCEPT !.apiKey = TRUE, !.svc = run] : run \in ServiceRuns} \cup
            {With(BaseEnv, "transform", "ValueError"), With(BaseEnv, "lib", "jose")}
    IN  varied \cup {With(e, "insert", "raise") : e \in varied}

\* A signed token for a@x that outlives the run
ValidToken ==
    [email |-> "a@x", role |-> "Doctor", exp |-> FarExp, signed |-> TRUE]
ValidHeader == [kind |-> "bearer", token |-> ValidToken]

\* A signed token for a@x that expired before the run began
ExpiredHeader ==
    [kind |-> "bearer", token |-> [ValidToken EXCEPT !.exp = 0 - TokenTTL]]

\* One of body, header and collaborators varied at a time
RichRequests ==
    PredictRequests(RichBodies, {ValidHeader, [kind |-> "none"]}, {BaseEnv, With(BaseEnv, "insert", "raise")})
    \cup PredictRequests({NamedBody}, RequestHeaders \cup {ExpiredHeader},
                          {BaseEnv, With(BaseEnv, "insert", "raise")})
    \cup PredictRequests({NamedBody}, {ValidHeader, [kind |-> "none"]}, RichEnvs)

\* POST /predict against the empty collection, or a request that adds no
\* document: the pipeline reads nothing from the collection, and SpecPredict
\* follows it over the collaborators' outcomes rather than over the histories.
PredictRich(raw, hdr, env) ==
    /\ store = <<>> \/ predict_risk(raw, hdr, env, store, nextId, now).store = store
    /\ Predict(raw, hdr, env)

NextPredict == \E r \in RichRequests : PredictRich(r[1], r[2], r[3])

SpecPredict == Init /\ [][NextPredict]_vars

\* ================================================================= the claims
PredictHandled == req.op = "predict"
PredictOk == PredictHandled /\ resp.status = 200
Made(fn, ok) == \E i \in 1 .. Len(calls) : calls[i] = Call(fn, ok)
Inserted == Made("insert_one", TRUE)

\* C1: a prediction that passes preprocessing answers with risk_score the
\* unweighted mean of the three model probabilities, within [0,1] when each
\* probability is, and with risk_level "Low" when risk_score < 0.33,
\* "Moderate" when 0.33 <= risk_score < 0.66 and "High" when it is >= 0.66.
\* (Over 300, the mean of p1/100, p2/100 and p3/100 is p1 + p2 + p3, and
\* s/300 < 33/100 iff 100 * s < 33 * 300.)
C1_RiskLevelByScore ==
    PredictOk =>
        LET s == resp.body.risk_score
            p == req.env.p
        IN  /\ s = p[1] + p[2] + p[3]
            /\ (\A i \in 1 .. 3 : 0 <= p[i] /\ p[i] <= 100) => 0 <= s /\ s <= 300
            /\ resp.body.risk_level =
                 IF 100 * s < 33 * 300 THEN "Low"
                 ELSE IF 100 * s < 66 * 300 THEN "Moderate"
                 ELSE "High"

\* A prediction whose score is exactly 0.33 has been answered "Moderate".
C1_Witness ==
    PredictOk /\ resp.body.risk_score = 99 /\ resp.body.risk_level = "Moderate"

\* The request came without a usable identity: no Bearer header, or a token
\* that is tampered or expired.
Unauthenticated(r) ==
    \/ r.hdr.kind # "bearer"
    \/ ~r.hdr.token.signed
    \/ r.hdr.token.exp < r.t
Authenticated(hdr, t) ==
    hdr.kind = "bearer" /\ hdr.token.signed /\ hdr.token.exp > t /\ hdr.token.email \in Emails

\* The collection and its next id as they were before the last request, a
\* prediction
StoreBefore == IF Inserted THEN SubSeq(store, 1, Len(store) - 1) ELSE store
IdBefore == IF Inserted THEN nextId - 1 ELSE nextId

\* C2: a prediction whose Authorization header is absent, not a Bearer
\* header, or carries a token that fails decode is answered exactly as the
\* same request from an authenticated caller is (200 when preprocessing
\* passes), and the document it stores has userId, doctorId and patientId
\* null.
C2_UnauthenticatedStillPredicts ==
    (PredictHandled /\ Unauthenticated(req)) =>
        /\ \A hdr \in RequestHeaders :
              Authenticated(hdr, req.t) =>
                  resp = predict_risk(req.raw, hdr, req.env, StoreBefore, IdBefore, req.t).resp
        /\ ~Rejected(req.raw, req.env) => resp.status = 200
        /\ Inserted =>
              /\ Last(store).userId = Null
              /\ Last(store).doctorId = Null
              /\ Last(store).patientId = Null

\* A prediction with a tampered token has been answered 200 and its
\* document stored, after another document.
C2_Witness ==
    /\ PredictOk /\ req.hdr.kind = "bearer" /\ ~req.hdr.token.signed
    /\ Inserted /\ Len(store) = 2 /\ Last(store).userId = Null

\* C3: when the SHAP step raises, the prediction is still answered 200 with
\* top_features empty and a shap_error field carrying the message, and
\* shap_error is absent exactly when the attribution succeeded.
C3_ShapErrorCarried ==
    (PredictHandled /\ ~Rejected(req.raw, req.env)) =>
        /\ resp.status = 200
        /\ req.env.shap.raises =>
              /\ resp.body.top_features = <<>>
              /\ HasKey(resp.body, "shap_error")
              /\ resp.body.shap_error = req.env.shap.msg
        /\ ~HasKey(resp.body, "shap_error") <=> Made("get_top_features", TRUE)

\* A step that handles a /predict request
PredictStep == req'.op = "predict" /\ now' = now

\* C4: when insert_one raises, the prediction is answered 200 with the
\* response it would get if the insert had succeeded, and the collection is
\* left as it was.
C4_InsertFailureAbsorbed ==
    [][(PredictStep /\ req'.env.insert = "raise" /\ ~Rejected(req'.raw, req'.env)) =>
          /\ resp'.status = 200
          /\ resp' = predict_risk(req'.raw, req'.hdr, With(req'.env, "insert", "ok"),
                                  store, nextId, now).resp
          /\ store' = store]_vars

\* A prediction whose insert raised has been answered 200, the collection
\* holding a document.
C4_Witness ==
    PredictOk /\ req.env.insert = "raise" /\ Made("insert_one", FALSE) /\ store # <<>>

\* C5: a prediction whose row the preprocessor rejects is answered 400 with
\* a JSON diagnostic, calls no model and no narrative generator, and writes
\* nothing to the collection.
C5_RejectedRowIs400 ==
    [][(PredictStep /\ Rejected(req'.raw, req'.env)) =>
          /\ resp'.status = 400
          /\ HasKey(resp'.body, "msg") /\ HasKey(resp'.body, "error")
          /\ \A i \in 1 .. Len(calls') : calls'[i].fn = "transform"
          /\ store' = store]_vars

HistoryGet == req.op = "history" /\ req.method = "GET"

\* C7: GET /history/<user_id> answers 401 to a missing or non-Bearer
\* Authorization header, then 401 to a token that fails decode (whatever its
\* email), then 403 to a valid token whose email is missing or is not
\* user_id; none of the three answers carries a stored record.
C7_HistoryChecksInOrder ==
    HistoryGet =>
        LET hdr == req.hdr IN
        /\ hdr.kind # "bearer" =>
              resp.status = 401 /\ resp.body.msg = "Authorization header missing"
        /\ (hdr.kind = "bearer" /\ (~hdr.token.signed \/ hdr.token.exp < req.t)) =>
              resp.status = 401 /\ resp.body.msg = "Invalid token"
        /\ (hdr.kind = "bearer" /\ hdr.token.signed /\ hdr.token.exp > req.t
              /\ (hdr.token.email = Null \/ hdr.token.email # req.user_id)) =>
              resp.status = 403
        /\ resp.status \in {401, 403} => ~HasKey(resp.body, "items")

\* A valid token for another email has been answered 403 while the
\* collection holds a document of user_id.
C7_Witness ==
    /\ HistoryGet /\ resp.status = 403 /\ req.hdr.token.email \in Emails
    /\ \E i \in 1 .. Len(store) : store[i].userId = req.user_id

\* C8: a successful GET /history/<user_id> returns exactly the documents of
\* the collection whose userId is user_id, each once, none of another user
\* and none without a user, by non-increasing created_at.
C8_HistoryIsTheUsersNewestFirst ==
    (HistoryGet /\ resp.status = 200) =>
        LET items == resp.body.items
            mine == {i \in 1 .. Len(store) : store[i].userId = req.user_id}
        IN  /\ Len(items) = Cardinality(mine)
            /\ \A i \in mine : \E k \in 1 .. Len(items) :
                  /\ items[k].id = OidStr(store[i]._id)
                  /\ items[k].created_at = IsoFormat(store[i].created_at)
                  /\ \A f \in DOMAIN store[i] \ {"_id", "created_at"} : items[k][f] = store[i][f]
            /\ \A k \in 1 .. Len(items) : items[k].userId = req.user_id /\ items[k].userId # Null
            /\ \A k \in 1 .. (Len(items) - 1) :
                  items[k].created_at.iso >= items[k + 1].created_at.iso

\* A history of two documents made on different days has been returned.
C8_Witness ==
    /\ HistoryGet /\ resp.status = 200 /\ Len(resp.body.items) = 2
    /\ resp.body.items[1].created_at.iso > resp.body.items[2].created_at.iso

\* A step that handles a DELETE /history/item request from a caller whose
\* token is valid and names a user
DeleteByCaller ==
    /\ req'.op = "delete" /\ req'.method = "DELETE" /\ now' = now
    /\ req'.hdr.kind = "bearer" /\ req'.hdr.token.signed /\ req'.hdr.token.exp > now
    /\ req'.hdr.token.email \in Emails

\* The places in the collection of the document item_id names, if the caller
\* owns it
OwnedTarget ==
    {i \in 1 .. Len(store) :
        OidStr(store[i]._id) = req'.item_id /\ store[i].userId = req'.hdr.token.email}

\* The collection without the document at place i
Without(st, i) == SubSeq(st, 1, i - 1) \o SubSeq(st, i + 1, Len(st))

\* C9 as stated: a DELETE by an authenticated caller for a record that does
\* not exist or that another user owns answers 404 and leaves the collection
\* as it was; for a record the caller owns it answers 200 and removes that
\* record and no other.
C9_DeleteAsStated ==
    [][DeleteByCaller =>
          IF OwnedTarget = {}
          THEN resp'.status = 404 /\ store' = store
          ELSE resp'.status = 200 /\ \E i \in OwnedTarget : store' = Without(store, i)]_vars

\* C9, amended: the same when item_id is a well-formed id and delete_one
\* does not raise; a malformed item_id is answered 400 and a raising
\* delete_one 500, both leaving the collection as it was.
C9_DeleteOwnedOnly ==
    [][DeleteByCaller =>
          IF req'.item_id \notin WellFormedIds
          THEN resp'.status = 400 /\ store' = store
          ELSE IF req'.db = "raise"
          THEN resp'.status = 500 /\ store' = store
          ELSE IF OwnedTarget = {}
          THEN resp'.status = 404 /\ store' = store
          ELSE resp'.status = 200 /\ \E i \in OwnedTarget : store' = Without(store, i)]_vars

\* A caller has deleted one of its documents and another document is left.
C9_Witness ==
    /\ req.op = "delete" /\ resp.status = 200 /\ req.method = "DELETE"
    /\ Len(store) = 1 /\ OidStr(store[1]._id) # req.item_id

\* C10: a stored document keeps the field values it was inserted with, and
\* leaves the collection only by a DELETE /history/item request with a valid
\* token whose email is the document's userId.
C10_RecordsImmutable ==
    [][\A i \in 1 .. Len(store) :
          IF \E j \in 1 .. Len(store') : store'[j]._id = store[i]._id
          THEN \E j \in 1 .. Len(store') : store'[j] = store[i]
          ELSE /\ req'.op = "delete" /\ req'.method = "DELETE" /\ resp'.status = 200
               /\ req'.item_id = OidStr(store[i]._id)
               /\ req'.hdr.kind = "bearer" /\ req'.hdr.token.signed
               /\ req'.hdr.token.exp >= now
               /\ req'.hdr.token.email = store[i].userId]_vars

\* A document has left the collection by its owner's DELETE while a document
\* without a user stays.
C10_Witness ==
    /\ req.op = "delete" /\ req.method = "DELETE" /\ resp.status = 200
    /\ Len(store) = 1 /\ store[1].userId = Null

\* ------------------------------------------------------------ the doctor routes
\* GET /doctor/patients
GetDoctorPatients(hdr, lib, db) ==
    \E out \in {get_doctor_patients(hdr, lib, db, store, now)} :
        /\ req' = [op |-> "patients", hdr |-> hdr, lib |-> lib, db |-> db, t |-> now]
        /\ resp' = out.resp
        /\ calls' = out.calls
        /\ UNCHANGED <<store, nextId, now, users, workers>>

\* GET /doctor/patient/<patient_id>
GetDoctorPatient(patient_id, hdr, lib, db) ==
    \E out \in {get_doctor_patient_profile(patient_id, hdr, lib, db, store, now)} :
        /\ req' = [op |-> "profile", patient_id |-> patient_id, hdr |-> hdr, lib |-> lib,
                    db |-> db, t |-> now]
        /\ resp' = out.resp
        /\ calls' = out.calls
        /\ UNCHANGED <<store, nextId, now, users, workers>>

\* The predictions the doctor routes read: a@x records two spellings of one
\* patient, another patient and a row without a name, b@x records a patient
\* of the first one's name.
BobBody == [patientName |-> "Bob", features |-> FullRow]
OtherHeader == [kind |-> "bearer", token |-> [ValidToken EXCEPT !.email = "b@x"]]
DoctorPredicts ==
    ({NamedBody, SnakeBody, BobBody, FullRow} \X {ValidHeader})
    \cup ({NamedBody} \X {OtherHeader})

\* The callers of the doctor routes at time t: tokens just issued to a@x as a
\* Doctor, as a Patient and without a role, to b@x and to no email as
\* Doctors, a@x's Doctor token with a signature that does not verify, and the
\* headers without a token.
DoctorCallers(t) ==
    {[kind |-> "none"], [kind |-> "basic"]} \cup
    {[kind |-> "bearer", token |-> tok] :
        tok \in {generate_token("a@x", Null, role, t) : role \in Roles \cup {Null}}
                \cup {generate_token("b@x", Null, "Doctor", t),
                      generate_token(Null, Null, "Doctor", t),
                      Tampered(generate_token("a@x", Null, "Doctor", t))}}

\* The header of a@x's Doctor token: the one caller for whom the collection's
\* answer and the patient asked for are varied
DoctorHeader(t) == [kind |-> "bearer", token |-> generate_token("a@x", Null, "Doctor", t)]
DoctorRequests(t) ==
    {r \in DoctorCallers(t) \X {"ok", "raise"} : r[2] = "raise" => r[1] = DoctorHeader(t)}
PatientIds == {"a@x::ann", "b@x::ann"}
ProfileRequests(t) ==
    {r \in PatientIds \X DoctorCallers(t) \X {"ok", "raise"} :
        r[1] # "a@x::ann" \/ r[3] = "raise" => r[2] = DoctorHeader(t)}

NextDoctor ==
    \/ Tick
    \/ \E r \in DoctorPredicts : Predict(r[1], r[2], BaseEnv)
    \/ \E r \in DoctorRequests(now) : GetDoctorPatients(r[1], "pyjwt", r[2])
    \/ \E r \in ProfileRequests(now) : GetDoctorPatient(r[1], r[2], "pyjwt", r[3])

SpecDoctor == Init /\ [][NextDoctor]_vars

DoctorRoute == req.op \in {"patients", "profile"}

\* The caller's token decodes and carries the role "Doctor"
CarriesDoctorRole(hdr, t, lib) ==
    /\ IsBearer(hdr) /\ ~DecodeRaises(hdr.token, t, lib)
    /\ HasKey(hdr.token, "role") /\ hdr.token.role = "Doctor"

\* C11: GET /doctor/patients and GET /doctor/patient/<patient_id> answer a
\* caller whose token does not carry the role "Doctor" with 401 or 403 and
\* with no patient data.
C11_DoctorRoleRequired ==
    (DoctorRoute /\ ~CarriesDoctorRole(req.hdr, req.t, req.lib)) =>
        /\ resp.status \in {401, 403}
        /\ ~HasKey(resp.body, "patients") /\ ~HasKey(resp.body, "history")

\* The stored documents of doctor e that name a patient
OfDoctor(e) == {i \in 1 .. Len(store) : store[i].doctorId = e /\ store[i].patientId # Null}
OfPatient(e, id) == {i \in OfDoctor(e) : store[i].patientId = id}

\* C12: GET /doctor/patients for doctor e returns one entry per distinct
\* patientId among the documents with doctorId = e and a patientId, the
\* patientId being e, "::" and the trimmed, lowercased patient name; the
\* entry's assessmentCount is the number of those documents and its
\* lastVisit their greatest created_at.
C12_PatientsAggregate ==
    (req.op = "patients" /\ resp.status = 200) =>
        LET e == req.hdr.token.email
            patients == resp.body.patients
            ids == {store[i].patientId : i \in OfDoctor(e)}
        IN  /\ \A i \in OfDoctor(e) :
                  store[i].patientId = e \o "::" \o NormName[store[i].patientName]
            /\ Len(patients) = Cardinality(ids)
            /\ \A k \in 1 .. Len(patients) : patients[k].patientId \in ids
            /\ \A id \in ids : \E k \in 1 .. Len(patients) :
                  /\ patients[k].patientId = id
                  /\ patients[k].assessmentCount = Cardinality(OfPatient(e, id))
                  /\ \E i \in OfPatient(e, id) :
                        /\ patients[k].lastVisit = IsoFormat(store[i].created_at)
                        /\ \A j \in OfPatient(e, id) : store[j].created_at <= store[i].created_at

\* The list holds one patient recorded twice, on different days and under
\* two spellings of the name.
C12_Witness ==
    /\ req.op = "patients" /\ resp.status = 200 /\ Len(resp.body.patients) = 1
    /\ resp.body.patients[1].assessmentCount = 2
    /\ resp.body.patients[1].lastVisit = IsoFormat(now) /\ now > 0
    /\ store[1].patientName # store[2].patientName
    /\ store[1].created_at < store[2].created_at

\* ------------------------------------------------------------------- /signup
\* The bodies of the signup requests
SignupBodies == [email : Emails, name : {"Ann"}, role : Roles]

\* users_collection.find_one({"email": email}) finds an account
HasAccount(us, email) == \E i \in 1 .. Len(us) : us[i].email = email

\* The document signup inserts; the hash stands for hash_password(password)
UserDoc(data) ==
    [name |-> data.name, email |-> data.email, password |-> "hash", role |-> data.role]

\* The signup requests still between find_one and insert_one
Inserting == {w \in Workers : workers[w].pc = "insert"}

\* signup, up to its find_one: worker w takes a request and looks the email
\* up; an email that has an account is answered 400, for another the worker
\* goes on to insert_one.
SignupFind(w, data) ==
    /\ workers[w].pc = "idle"
    /\ IF HasAccount(users, data.email)
       THEN workers' = [workers EXCEPT ![w] = Idle(400)]
       ELSE /\ Len(users) + Cardinality(Inserting) < MaxUsers
            /\ workers' = [workers EXCEPT ![w] = [pc |-> "insert", data |-> data]]
    /\ UNCHANGED <<store, nextId, now, req, resp, calls, users>>

\* signup, from its insert_one: the account is added and the request
\* answered 200.
SignupInsert(w) ==
    /\ workers[w].pc = "insert"
    /\ users' = Append(users, UserDoc(workers[w].data))
    /\ workers' = [workers EXCEPT ![w] = Idle(200)]
    /\ UNCHANGED <<store, nextId, now, req, resp, calls>>

NextSignup ==
    \/ \E w \in Workers, data \in SignupBodies : SignupFind(w, data)
    \/ \E w \in Workers : SignupInsert(w)

SpecSignup == Init /\ [][NextSignup]_vars

\* C13: whatever the interleaving of the signup requests the workers handle,
\* the users collection holds at most one account per email (a signup for an
\* email that has an account is answered 400 and adds none).
C13_OneAccountPerEmail ==
    \A i, j \in 1 .. Len(users) : users[i].email = users[j].email => i = j

\* ------------------------------------------------------------------ the tokens
\* The clock of the token checks runs past the expiry of a token issued at
\* its start.
TickLate ==
    /\ now < MaxTime + TokenTTL
    /\ now' = now + 1
    /\ UNCHANGED <<store, nextId, req, resp, calls, users, workers>>

\* decode_token applied at time now to the token generate_token(email, name,
\* role) made at time issued, or to that token tampered with
DecodeIssued(email, name, role, issued, tampered, lib) ==
    LET made == generate_token(email, name, role, issued)
        tok == IF tampered THEN Tampered(made) ELSE made
    IN  /\ req' = [op |-> "decode", email |-> email, name |-> name, role |-> role,
                   hdr |-> [kind |-> "bearer", token |-> tok], lib |-> lib, t |-> now]
        /\ resp' = IF DecodeRaises(tok, now, lib)
                   THEN [op |-> "decode", status |-> 0, body |-> [raised |-> TRUE]]
                   ELSE [op |-> "decode", status |-> 0,
                         body |-> [raised |-> FALSE, payload |-> decode_token(tok)]]
        /\ calls' = <<Call("decode_token", ~DecodeRaises(tok, now, lib))>>
        /\ UNCHANGED <<store, nextId, now, users, workers>>

\* What login passes to generate_token, and when
Issues(t) == Emails \X {Null, "Ann"} \X (Roles \cup {Null}) \X (0 .. t) \X BOOLEAN

\* The headers that carry a@x's tokens to the routes
IssuedHeaders(t) ==
    {[kind |-> "bearer",
      token |-> IF i[5] THEN Tampered(generate_token(i[1], i[2], i[3], i[4]))
                ELSE generate_token(i[1], i[2], i[3], i[4])] :
        i \in {j \in Issues(t) : j[1] = "a@x" /\ j[2] = Null}}

NextToken ==
    \/ TickLate
    \/ \E i \in Issues(now), lib \in JwtLibs : DecodeIssued(i[1], i[2], i[3], i[4], i[5], lib)
    \/ \E hdr \in IssuedHeaders(now), lib \in JwtLibs : GetHistory("GET", "a@x", hdr, lib, "ok")
    \/ \E hdr \in IssuedHeaders(now), lib \in JwtLibs : GetDoctorPatients(hdr, lib, "ok")
    \/ \E hdr \in IssuedHeaders(now), lib \in JwtLibs : GetDoctorPatient("a@x::ann", hdr, lib, "ok")
    \/ \E hdr \in IssuedHeaders(now), lib \in JwtLibs :
          DeleteItem("DELETE", OidStr(1), hdr, lib, "ok")

SpecToken == Init /\ [][NextToken]_vars

\* The request's token is within its 24 hours and untouched; it is past them
\* or its signature does not verify
TokenLive == req.hdr.token.signed /\ req.t < req.hdr.token.exp
TokenDead == ~req.hdr.token.signed \/ req.t > req.hdr.token.exp

NonEmptyText(t) == t # <<>> /\ \E i \in 1 .. Len(t) : t[i] # ""
NonEmptyList(t) == t # <<>> /\ \A i \in 1 .. Len(t) : t[i] # ""

\* C15: generate_explanation, generate_followup_plan and
\* generate_prescription_summary return a non-empty string and
\* generate_lifestyle_suggestions a non-empty list of non-empty strings,
\* whether the API key is unset, the service call raises, or the service
\* answers no text, blank text or text.
C15_NarrativesNeverEmpty ==
    PredictOk =>
        /\ NonEmptyText(resp.body.explanation_text)
        /\ NonEmptyList(resp.body.lifestyle_suggestions)
        /\ NonEmptyText(resp.body.followup_plan)
        /\ NonEmptyText(resp.body.prescription_summary)

\* With the API key set, the service raised for the suggestions and answered
\* blank text for the plan, and both fell back to their templates.
C15_Witness ==
    /\ PredictOk /\ req.env.apiKey
    /\ req.env.svc[2].raises /\ ~req.env.svc[3].raises /\ req.env.svc[3].text = <<"  ">>
    /\ resp.body.lifestyle_suggestions = _basic_lifestyle_fallback(resp.body.risk_level)
    /\ resp.body.followup_plan = <<"Consider discussing this assessment with a doctor">>

\* ------------------------------------------------- the functions on their own
\* The first sample's SHAP values, one per feature, and the feature names
ShapRows == UNION {[1 .. n -> (0 - MaxShap) .. MaxShap] : n \in 0 .. MaxFeatures}
NamesFor(n) == [i \in 1 .. n |-> "f" \o ToString(i)]

\* The values a request gives for age and trestbps: numbers on both sides of
\* every bin edge, strings float() converts, a string it refuses, a string it
\* converts to NaN, and null
AgeCells ==
    {Num(n) : n \in {0, 30, 31, 45, 46, 60, 61, 90}} \cup
    {Str("45"), Str("x"), Str("nan"), NoneCell}
BpCells ==
    {Num(n) : n \in {90, 119, 120, 129, 130, 139, 140, 150}} \cup
    {Str("130"), Str("x"), Str("nan"), NoneCell}

\* The feature rows: age and trestbps, the same with age_group or bp_cat
\* supplied, and rows without age or without trestbps
DeriveRows ==
    LET both == {[age |-> a, trestbps |-> b] : a \in AgeCells, b \in BpCells}
    IN  both
        \cup {r @@ [age_group |-> Str(g)] : r \in both, g \in {"46-60", "teen"}}
        \cup {r @@ [bp_cat |-> Str("low")] : r \in both}
        \cup {[age |-> a] : a \in AgeCells} \cup {[trestbps |-> b] : b \in BpCells}
        \cup {[age_group |-> Str("teen"), chol |-> Num(250)]}

InitUnits ==
    /\ store = <<>>
    /\ nextId = 1
    /\ now = 0
    /\ req \in {[op |-> "top", vals |-> v] : v \in ShapRows}
               \cup {[op |-> "derive", data |-> d] : d \in DeriveRows}
    /\ resp = [op |-> "none", status |-> 0]
    /\ calls = <<>>
    /\ users = <<>>
    /\ workers = [w \in Workers |-> Idle(0)]

\* get_top_features on the row, with one name per feature
ApplyTop ==
    /\ req.op = "top" /\ resp.op = "none"
    /\ resp' = [op |-> "top", status |-> 0,
                body |-> get_top_features(req.vals, NamesFor(Len(req.vals)), TopN)]
    /\ UNCHANGED <<store, nextId, now, req, calls, users, workers>>

\* The derivations predict_risk makes before it calls the preprocessor
ApplyDerive ==
    /\ req.op = "derive" /\ resp.op = "none"
    /\ resp' = [op |-> "derive", status |-> 0, body |-> DeriveColumns(req.data)]
    /\ UNCHANGED <<store, nextId, now, req, calls, users, workers>>

NextUnits == ApplyTop \/ ApplyDerive

SpecUnits == InitUnits /\ [][NextUnits]_vars

\* The features get_top_features returned
Returned == {resp.body[k].feature : k \in 1 .. Len(resp.body)}

\* C16: for a sample of n features get_top_features returns min(5, n) pairs,
\* each a feature name with that feature's signed value, no feature twice,
\* by non-increasing absolute value; no feature left out has an absolute
\* value greater than the smallest one returned.
C16_TopFeatures ==
    resp.op = "top" =>
        LET out == resp.body
            vals == req.vals
            n == Len(vals)
            names == NamesFor(n)
        IN  /\ Len(out) = IF n < 5 THEN n ELSE 5
            /\ \A k \in 1 .. Len(out) : \E i \in 1 .. n :
                  out[k].feature = names[i] /\ out[k].value = vals[i]
            /\ \A k, l \in 1 .. Len(out) : out[k].feature = out[l].feature => k = l
            /\ \A k \in 1 .. (Len(out) - 1) : Abs(out[k].value) >= Abs(out[k + 1].value)
            /\ \A i \in 1 .. n : names[i] \notin Returned =>
                  \A k \in 1 .. Len(out) : Abs(vals[i]) <= Abs(out[k].value)

\* Five of six features have been returned, a negative value among them and
\* a zero left out.
C16_Witness ==
    /\ resp.op = "top" /\ Len(req.vals) = 6 /\ Len(resp.body) = 5
    /\ \E k \in 1 .. 5 : resp.body[k].value < 0
    /\ \E i \in 1 .. 6 : req.vals[i] = 0 /\ NamesFor(6)[i] \notin Returned
    /\ Abs(resp.body[5].value) > 0

\* The value is one float() converts to a number
IsNumber(v) == CanFloat(v) /\ ~IsNaN(v)

\* C17: with age and no age_group in the request the derived age_group is
\* "0-30" for age < 31, "31-45" for 31 <= age < 46, "46-60" for
\* 46 <= age < 61, "61+" for age >= 61 and "unknown" for an age that float()
\* refuses; an age_group the request supplies is kept.
C17_AgeGroup ==
    resp.op = "derive" =>
        /\ (HasKey(req.data, "age") /\ ~HasKey(req.data, "age_group")) =>
              LET a == req.data.age
                  g == resp.body.age_group
              IN  /\ (IsNumber(a) /\ ToFloat(a) < 31) => g = Str("0-30")
                  /\ (IsNumber(a) /\ 31 <= ToFloat(a) /\ ToFloat(a) < 46) => g = Str("31-45")
                  /\ (IsNumber(a) /\ 46 <= ToFloat(a) /\ ToFloat(a) < 61) => g = Str("46-60")
                  /\ (IsNumber(a) /\ ToFloat(a) >= 61) => g = Str("61+")
                  /\ ~CanFloat(a) => g = Str("unknown")
        /\ HasKey(req.data, "age_group") => resp.body.age_group = req.data.age_group

\* An age of 45 given as a string has been binned "31-45".
C17_Witness ==
    /\ resp.op = "derive" /\ HasKey(req.data, "age") /\ req.data.age = Str("45")
    /\ ~HasKey(req.data, "age_group") /\ resp.body.age_group = Str("31-45")

\* C18: with trestbps and no bp_cat in the request the derived bp_cat is
\* "normal" for trestbps < 120, "elevated" for 120 <= trestbps < 130,
\* "hypertension1" for 130 <= trestbps < 140, "hypertension2" for
\* trestbps >= 140 and "unknown" for a value that float() refuses.
C18_BpCat ==
    (resp.op = "derive" /\ HasKey(req.data, "trestbps") /\ ~HasKey(req.data, "bp_cat")) =>
        LET b == req.data.trestbps
            c == resp.body.bp_cat
        IN  /\ (IsNumber(b) /\ ToFloat(b) < 120) => c = Str("normal")
            /\ (IsNumber(b) /\ 120 <= ToFloat(b) /\ ToFloat(b) < 130) => c = Str("elevated")
            /\ (IsNumber(b) /\ 130 <= ToFloat(b) /\ ToFloat(b) < 140) => c = Str("hypertension1")
            /\ (IsNumber(b) /\ ToFloat(b) >= 140) => c = Str("hypertension2")
            /\ ~CanFloat(b) => c = Str("unknown")

\* A null trestbps has been binned "unknown".
C18_Witness ==
    /\ resp.op = "derive" /\ HasKey(req.data, "trestbps") /\ req.data.trestbps = NoneCell
    /\ ~HasKey(req.data, "bp_cat") /\ resp.body.bp_cat = Str("unknown")
====
